---- MODULE Spec2Model ----
(***************************************************************************)
(* Model of the release-table service (api_server.py) and of the sync job  *)
(* (sync_excel_jira.py): its identity assignment and its ticket search.    *)
(*                                                                         *)
(* Text is a sequence of one-character strings, so that trimming, suffix   *)
(* stripping and str() are computed and not assumed.  A JSON value is a    *)
(* record [k, s]: k is "none", "str" or "int", s the text of a string or   *)
(* the decimal digits of an integer.  A row (a Python dict) is a function  *)
(* from field names (text) to values.                                      *)
(***************************************************************************)
EXTENDS Integers, Sequences, FiniteSets, TLC

VARIABLES
    DATA_STORAGE,       \* api_server.DATA_STORAGE: the list of rows
    EDITABLE_COLUMNS,   \* api_server.EDITABLE_COLUMNS: allow-list or NoList
    req,                \* the request handled by the last step
    resp,               \* the response it got
    df,                 \* send_excel_to_api: the table read from the sheet
    phase,              \* send_excel_to_api: how far it has run
    cand,               \* the __id column before uniqueness enforcement
    jira,               \* fetch_jira_issues: its position, requests and result
    ingestTask,         \* a receive_releases coroutine in flight
    patchTask,          \* a patch_cell coroutine in flight
    readTask            \* a read request in flight

serverVars == <<DATA_STORAGE, EDITABLE_COLUMNS, req, resp>>
assignerVars == <<df, phase, cand, jira>>
taskVars == <<ingestTask, patchTask, readTask>>
vars == <<DATA_STORAGE, EDITABLE_COLUMNS, req, resp, df, phase, cand, jira,
          ingestTask, patchTask, readTask>>

----------------------------------------------------------------------------
(* Bounds *)

MaxRows == 2            \* longest ingested batch
MaxSheetRows == 3       \* longest sheet the sync job reads
WideRows == 6           \* rows of a batch longer than the sample of known ids

----------------------------------------------------------------------------
(* Text *)

WS == {" "}
Digits == {"0", "1", "2", "3", "4", "5", "6", "7", "8", "9"}

RECURSIVE LStrip(_)
LStrip(s) == IF s # <<>> /\ Head(s) \in WS THEN LStrip(Tail(s)) ELSE s

RECURSIVE RStrip(_)
RStrip(s) ==
    IF s # <<>> /\ s[Len(s)] \in WS THEN RStrip(SubSeq(s, 1, Len(s) - 1)) ELSE s

\* str.strip()
Strip(s) == RStrip(LStrip(s))

\* the number of digits s ends with
RECURSIVE TrailingDigits(_)
TrailingDigits(s) ==
    IF s # <<>> /\ s[Len(s)] \in Digits
    THEN 1 + TrailingDigits(SubSeq(s, 1, Len(s) - 1))
    ELSE 0

\* decimal text of a natural number: str(i)
RECURSIVE DecStr(_)
DecStr(n) ==
    LET d == <<"0", "1", "2", "3", "4", "5", "6", "7", "8", "9">>[(n % 10) + 1]
    IN  IF n < 10 THEN <<d>> ELSE DecStr(n \div 10) \o <<d>>

----------------------------------------------------------------------------
(* JSON values and Python's view of them *)

None == [k |-> "none", s |-> <<>>]
StrV(s) == [k |-> "str", s |-> s]
IntV(digits) == [k |-> "int", s |-> digits]

\* bool(v): None, "" and 0 are falsy
Truthy(v) ==
    \/ v.k = "str" /\ v.s # <<>>
    \/ v.k = "int" /\ v.s # <<"0">>

\* a or b
Or(a, b) == IF Truthy(a) THEN a ELSE b

\* str(v)
PyStr(v) == IF v.k = "none" THEN <<"N", "o", "n", "e">> ELSE v.s

\* dict.get(key)
Get(row, key) == IF key \in DOMAIN row THEN row[key] ELSE None

\* d[key] = value on a dict, creating the key if absent
SetField(row, key, value) ==
    [f \in (DOMAIN row) \cup {key} |-> IF f = key THEN value ELSE row[f]]

\* an item of a JSON array: an object, or anything else
Dict(d) == [isDict |-> TRUE, d |-> d]
NotADict == [isDict |-> FALSE, d |-> <<>>]

F_id == <<"_", "_", "i", "d">>
F_ExternalID == <<"E", "x", "t", "e", "r", "n", "a", "l", "I", "D">>
F_ID == <<"I", "D">>
F_idLower == <<"i", "d">>
F_Status == <<"S", "t", "a", "t", "u", "s">>

----------------------------------------------------------------------------
(* Helpers of api_server.py *)

API_KEY == "my_secret_key"

\* a check that also lets the bare key through
Authorized_key_only(authorization) ==
    authorization \in {"Bearer " \o API_KEY, API_KEY}

\* _auth_or_401: TRUE when the request passes
Authorized(authorization) == authorization = "Bearer " \o API_KEY

_row_id(row) ==
    LET rid == Or(Or(Or(Or(Get(row, F_id), Get(row, F_ExternalID)),
                        Get(row, F_ID)), Get(row, F_idLower)), StrV(<<>>))
    IN  Strip(PyStr(rid))

normalize_id(rid) == Strip(rid)

NoBase == [found |-> FALSE, base |-> <<>>]

\* re.match(r"^(.*)-(\d+)$", rid.strip()): the greedy group 1 ends at the last
\* hyphen, which must be followed by digits only, up to the end
strip_suffix_num(rid) ==
    LET s == Strip(rid)
        n == TrailingDigits(s)
    IN  IF n >= 1 /\ Len(s) > n /\ s[Len(s) - n] = "-"
        THEN [found |-> TRUE, base |-> Strip(SubSeq(s, 1, Len(s) - n - 1))]
        ELSE NoBase

\* the fallback identifier f"row-{i}" of the row at zero-based position i
FallbackId(i) == <<"r", "o", "w", "-">> \o DecStr(i)

\* every item of the payload is a dict
AllDicts(items) == \A i \in 1..Len(items) : items[i].isDict

\* _attach_ids on a list of dicts (TLA+ position i is Python index i - 1)
_attach_ids(items) ==
    [i \in 1..Len(items) |->
        LET r == items[i].d
            own == _row_id(r)
            rid == IF own # <<>> THEN own ELSE FallbackId(i - 1)
        IN  SetField(r, F_id, StrV(rid))]

\* position of the first row of the store whose _row_id is rid, 0 if none
FirstIndex(store, rid) ==
    LET hits == {i \in 1..Len(store) : _row_id(store[i]) = rid}
    IN  IF hits = {} THEN 0 ELSE CHOOSE i \in hits : \A j \in hits : i <= j

\* find_row_by_id with the two tiers tried in the wrong order
find_row_by_id_suffix_first(store, rid) ==
    LET r == normalize_id(rid)
        sfx == strip_suffix_num(r)
        byBase == IF sfx.found /\ sfx.base # <<>> THEN FirstIndex(store, sfx.base) ELSE 0
    IN  IF byBase # 0 THEN byBase ELSE FirstIndex(store, r)

\* find_row_by_id: the position of the row it returns, 0 for None
find_row_by_id(store, rid) ==
    LET r == normalize_id(rid)
        exact == FirstIndex(store, r)
        sfx == strip_suffix_num(r)
    IN  IF exact # 0 THEN exact
        ELSE IF sfx.found /\ sfx.base # <<>> THEN FirstIndex(store, sfx.base)
        ELSE 0

\* list_ids
list_ids(store) == [i \in 1..Len(store) |-> _row_id(store[i])]

\* a sample that is not cut to five identifiers
Known_uncut(store) == list_ids(store)

\* list_ids()[:5]
Known(store) == SubSeq(list_ids(store), 1, IF Len(store) < 5 THEN Len(store) ELSE 5)

----------------------------------------------------------------------------
(* Endpoints of api_server.py, each as a function of the store and the     *)
(* request, giving the store and the response it leaves.                   *)

Unauthorized == [status |-> 401, detail |-> "Unauthorized"]

NotFound(store) == [status |-> 404, detail |-> "not found", known |-> Known(store)]

\* a replace that forgets to clear
Cleared_kept(store) == store

\* DATA_STORAGE.clear()
Cleared(store) == <<>>

\* DATA_STORAGE.extend(rows)
Extended(store, rows) == store \o rows

\* POST /releases
receive_releases(store, authorization, payload) ==
    IF ~Authorized(authorization)
    THEN [store |-> store, resp |-> Unauthorized]
    ELSE IF ~payload.isList
    THEN [store |-> store,
          resp |-> [status |-> 400, detail |-> "Expected a list of releases"]]
    ELSE IF ~AllDicts(payload.items)
    \* line 97 has cleared the store when _attach_ids raises on line 98
    THEN [store |-> Cleared(store),
          resp |-> [status |-> 400, detail |-> "Each item must be an object"]]
    ELSE LET after == Extended(Cleared(store), _attach_ids(payload.items))
         IN  [store |-> after, resp |-> [status |-> 200, count |-> Len(after)]]

\* (body.get("field") or "").strip()
PatchField(body) == Strip(PyStr(Or(body.field, StrV(<<>>))))

\* EDITABLE_COLUMNS and field not in EDITABLE_COLUMNS
NotEditable(allow, field) == allow.isSet /\ allow.cols # {} /\ field \notin allow.cols

\* a patch that reports the identifier it was asked for
patch_cell_requested_id(store, allow, authorization, rid, body) ==
    LET field == PatchField(body)
        i == find_row_by_id(store, rid)
    IN  IF ~Authorized(authorization)
        THEN [store |-> store, resp |-> Unauthorized]
        ELSE IF field = <<>>
        THEN [store |-> store, resp |-> [status |-> 400, detail |-> "Missing 'field'"]]
        ELSE IF NotEditable(allow, field)
        THEN [store |-> store, resp |-> [status |-> 403, detail |-> "not editable"]]
        ELSE IF i = 0
        THEN [store |-> store, resp |-> NotFound(store)]
        ELSE LET after == [store EXCEPT ![i] = SetField(@, field, body.value)]
             IN  [store |-> after,
                  resp |-> [status |-> 200, id |-> normalize_id(rid),
                            field |-> field, value |-> body.value]]

\* PATCH /releases/{rid}
patch_cell(store, allow, authorization, rid, body) ==
    LET field == PatchField(body)
        i == find_row_by_id(store, rid)
    IN  IF ~Authorized(authorization)
        THEN [store |-> store, resp |-> Unauthorized]
        ELSE IF field = <<>>
        THEN [store |-> store, resp |-> [status |-> 400, detail |-> "Missing 'field'"]]
        ELSE IF NotEditable(allow, field)
        THEN [store |-> store, resp |-> [status |-> 403, detail |-> "not editable"]]
        ELSE IF i = 0
        THEN [store |-> store, resp |-> NotFound(store)]
        ELSE LET after == [store EXCEPT ![i] = SetField(@, field, body.value)]
             IN  [store |-> after,
                  resp |-> [status |-> 200, id |-> _row_id(after[i]),
                            field |-> field, value |-> body.value]]

\* POST /releases/rebuild-ids
rebuild_ids(store, authorization) ==
    IF ~Authorized(authorization)
    THEN [store |-> store, resp |-> Unauthorized]
    ELSE LET after ==
                [i \in 1..Len(store) |->
                    LET own == _row_id(store[i])
                        rid == IF own # <<>> THEN own ELSE FallbackId(i - 1)
                    IN  SetField(store[i], F_id, StrV(rid))]
         IN  [store |-> after, resp |-> [status |-> 200, rows |-> Len(after)]]

\* GET /health
health(store) == [status |-> 200, rows |-> Len(store)]

\* GET /releases.json
get_releases_json(store) == [status |-> 200, content |-> store]

\* GET /releases/{rid}
get_row(store, rid) ==
    LET i == find_row_by_id(store, rid)
    IN  IF i = 0 THEN NotFound(store) ELSE [status |-> 200, row |-> store[i]]

----------------------------------------------------------------------------
(* sync_excel_jira.py: send_excel_to_api.  A table is its ordered column   *)
(* names and its rows, each a function from column name to cell.  A cell   *)
(* is a value as above; None is pandas' NaN, the empty cell.               *)

Table(cols, data) == [cols |-> cols, data |-> data]
NoTable == Table(<<>>, <<>>)

UpperCase == <<"A", "B", "C", "D", "E", "F", "G", "H", "I", "J", "K", "L", "M",
               "N", "O", "P", "Q", "R", "S", "T", "U", "V", "W", "X", "Y", "Z">>
LowerCase == <<"a", "b", "c", "d", "e", "f", "g", "h", "i", "j", "k", "l", "m",
               "n", "o", "p", "q", "r", "s", "t", "u", "v", "w", "x", "y", "z">>

\* str.lower()
Lower(s) ==
    [i \in 1..Len(s) |->
        IF \E u \in 1..26 : UpperCase[u] = s[i]
        THEN LowerCase[CHOOSE u \in 1..26 : UpperCase[u] = s[i]]
        ELSE s[i]]

\* str(c).strip().lower(), the key of lower_to_orig
ColKey(c) == Lower(Strip(c))

NoCol == [found |-> FALSE, col |-> <<>>]

\* lower_to_orig.get(key): the dict comprehension keeps the last column of a key
lower_to_orig(cols, key) ==
    LET hits == {i \in 1..Len(cols) : ColKey(cols[i]) = key}
    IN  IF hits = {} THEN NoCol
        ELSE [found |-> TRUE, col |-> cols[CHOOSE i \in hits : \A j \in hits : j <= i]]

K_scope == <<"s", "c", "o", "p", "e">>
K_category == <<"c", "a", "t", "e", "g", "o", "r", "y">>
K_application == <<"a", "p", "p", "l", "i", "c", "a", "t", "i", "o", "n">>
K_version == <<"v", "e", "r", "s", "i", "o", "n">>
C_Category == <<"C", "a", "t", "e", "g", "o", "r", "y">>
C_Scope == <<"S", "c", "o", "p", "e">>
C_Application == <<"A", "p", "p", "l", "i", "c", "a", "t", "i", "o", "n">>
C_Version == <<"V", "e", "r", "s", "i", "o", "n">>

\* the names tried for an identifier column, in order
CandidateNames ==
    << <<"_", "_", "i", "d">>, <<"e", "x", "t", "e", "r", "n", "a", "l", "i", "d">>, <<"i", "d">>,
       <<"j", "i", "r", "a", " ", "k", "e", "y">>, <<"k", "e", "y">> >>

\* str(v) of a cell, as astype(str) and str() give it
CellStr(v) == IF v.k = "none" THEN <<"n", "a", "n">> ELSE v.s

\* the cell of a row, "" when the row has no such column (row.get(col, ""))
Cell(row, col) == IF col \in DOMAIN row THEN row[col] ELSE StrV(<<>>)

\* df[col] = values: overwrite the column, or append it as the last one
SetColumn(t, col, values) ==
    Table(IF \E i \in 1..Len(t.cols) : t.cols[i] = col THEN t.cols
          ELSE Append(t.cols, col),
          [i \in 1..Len(t.data) |-> SetField(t.data[i], col, values[i])])

\* an insert that puts the column last
InsertColumn_last(t, pos, col, values) ==
    Table(Append(t.cols, col),
          [i \in 1..Len(t.data) |-> SetField(t.data[i], col, values[i])])

\* df.insert(pos, col, values) at zero-based position pos
InsertColumn(t, pos, col, values) ==
    Table(SubSeq(t.cols, 1, pos) \o <<col>> \o SubSeq(t.cols, pos + 1, Len(t.cols)),
          [i \in 1..Len(t.data) |-> SetField(t.data[i], col, values[i])])

Column(t, col) == [i \in 1..Len(t.data) |-> Cell(t.data[i], col)]

\* (A) Category completed from Scope, or inserted after Scope
Reconciled(t) ==
    LET scope == lower_to_orig(t.cols, K_scope)
        category == lower_to_orig(t.cols, K_category)
    IN  IF category.found /\ scope.found
        THEN SetColumn(t, category.col,
                [i \in 1..Len(t.data) |->
                    LET c == Cell(t.data[i], category.col)
                    IN  IF c.k # "none" /\ CellStr(c) # <<>> THEN c
                        ELSE Cell(t.data[i], scope.col)])
        ELSE IF scope.found
        THEN InsertColumn(t, (CHOOSE i \in 1..Len(t.cols) : t.cols[i] = scope.col),
                          C_Category, Column(t, scope.col))
        ELSE t

\* the first candidate name that is a key of lower_to_orig
Candidate(cols) ==
    LET hits == {n \in 1..Len(CandidateNames) : lower_to_orig(cols, CandidateNames[n]).found}
    IN  IF hits = {} THEN NoCol
        ELSE lower_to_orig(cols, CandidateNames[CHOOSE n \in hits : \A m \in hits : n <= m])

RECURSIVE Flat(_)
Flat(s) == IF s = <<>> THEN "" ELSE Head(s) \o Flat(Tail(s))

\* hashlib.sha1(base).hexdigest()[:10]: one opaque symbol per digested text
Sha1Hex10(base) == <<"sha1:" \o Flat(base)>>

\* make_id
make_id(row, cols) ==
    LET app == lower_to_orig(cols, K_application)
        ver == lower_to_orig(cols, K_version)
        cat == lower_to_orig(cols, K_category)
        sc == IF cat.found THEN cat ELSE lower_to_orig(cols, K_scope)
        part(c) == IF c.found THEN CellStr(Cell(row, c.col)) ELSE <<>>
        p1 == part(app)
        p2 == part(ver)
        p3 == part(sc)
        base == Strip(p1) \o <<"|">> \o Strip(p2) \o <<"|">> \o Strip(p3)
    IN  (IF p1 # <<>> THEN p1 ELSE <<"x">>) \o <<"-">>
        \o (IF p2 # <<>> THEN p2 ELSE <<"n", "a">>) \o <<"-">> \o Sha1Hex10(base)

\* (B) the __id column: adopted from a candidate column, or composed
Assigned(t) ==
    LET c == Candidate(t.cols)
    IN  IF c.found /\ c.col # F_id
        THEN SetColumn(t, F_id, [i \in 1..Len(t.data) |-> StrV(CellStr(Cell(t.data[i], c.col)))])
        ELSE IF ~\E i \in 1..Len(t.cols) : t.cols[i] = F_id
        THEN SetColumn(t, F_id, [i \in 1..Len(t.data) |-> StrV(make_id(t.data[i], t.cols))])
        ELSE t

\* duplicated() with its default keep="first": the first of a group is not marked
Duplicated_keep_first(ids, i) == \E j \in 1..(i - 1) : ids[j] = ids[i]

\* duplicated(keep=False)
Duplicated(ids, i) == \E j \in 1..Len(ids) : j # i /\ ids[j] = ids[i]

\* groupby("__id").cumcount()
CumCount(ids, i) == Cardinality({j \in 1..(i - 1) : ids[j] = ids[i]})

\* the uniqueness step on the __id column
Deduplicated(ids) ==
    [i \in 1..Len(ids) |->
        IF Duplicated(ids, i)
        THEN StrV(ids[i].s \o <<"-">> \o DecStr(CumCount(ids, i)))
        ELSE ids[i]]

Unique(t) == SetColumn(t, F_id, Deduplicated(Column(t, F_id)))

\* df.fillna("").to_dict(orient="records")
Records(t) ==
    [i \in 1..Len(t.data) |->
        Dict([c \in DOMAIN t.data[i] |->
                IF t.data[i][c].k = "none" THEN StrV(<<>>) ELSE t.data[i][c]])]

----------------------------------------------------------------------------
(* Requests the clients send *)

T_a == <<"a">>
T_a1 == <<"a", "-", "1">>

\* rows of a batch: without identifier, with a null __id and an ExternalID
\* that needs trimming, with a suffixed ID, with a blank __id before a number
RowInputs ==
    { <<>>,
      [f \in {F_id, F_ExternalID} |-> IF f = F_id THEN None ELSE StrV(<<" ", "a", " ">>)],
      [f \in {F_ID, F_Status} |-> IF f = F_ID THEN StrV(T_a1) ELSE StrV(<<"x">>)],
      [f \in {F_id, F_idLower} |-> IF f = F_id THEN StrV(<<" ">>) ELSE IntV(<<"7">>)] }

Items == {Dict(d) : d \in RowInputs}

RECURSIVE SeqsUpTo(_, _)
SeqsUpTo(S, n) ==
    IF n = 0 THEN {<<>>}
    ELSE LET shorter == SeqsUpTo(S, n - 1)
         IN  shorter \cup {Append(q, x) : q \in {r \in shorter : Len(r) = n - 1}, x \in S}

NotAList == [isList |-> FALSE, items |-> <<>>]

List(items) == [isList |-> TRUE, items |-> items]

ValidPayloads == {List(q) : q \in SeqsUpTo(Items, MaxRows)}

\* bodies the validation rejects: not an array, or an array with a non-object
InvalidPayloads ==
    {NotAList, List(<<NotADict>>), List(<<Dict([f \in {F_id} |-> StrV(<<"a">>)]), NotADict>>)}

\* a batch of WideRows rows, each with an identifier of its own
WideBatch == List([i \in 1..WideRows |-> Dict([f \in {F_ID} |-> StrV(DecStr(i))])])

Payloads == ValidPayloads \cup InvalidPayloads \cup {WideBatch}

GoodAuth == "Bearer " \o API_KEY
BadAuth == API_KEY

\* headers that are not the bearer form of the key: the bare key, another
\* case, a trailing blank, and "" for the header left out
BadAuths == {BadAuth, "bearer " \o API_KEY, "Bearer " \o API_KEY \o " ", ""}

RequestIds == {T_a, <<" ", "a", "-", "1", " ">>, <<"z">>}

\* one valid batch, for the requests that are rejected before the body is read
OneRow == List(<<Dict([f \in {F_id} |-> StrV(T_a)])>>)

IngestRequests ==
    ({GoodAuth} \X Payloads) \cup (BadAuths \X {NotAList, OneRow})

Body(field, value) == [field |-> field, value |-> value]

PaddedStatus == <<" ">> \o F_Status \o <<" ">>

PatchRequests ==
    ({GoodAuth} \X RequestIds
        \X {Body(StrV(F_id), None), Body(StrV(F_id), StrV(T_a)),
            Body(StrV(PaddedStatus), StrV(T_a))})
    \cup {<<GoodAuth, T_a, Body(None, StrV(T_a))>>,
          <<GoodAuth, <<"z">>, Body(StrV(<<" ">>), StrV(T_a))>>}
    \cup (BadAuths \X {T_a}
        \X {Body(f, StrV(T_a)) : f \in {StrV(<<" ">>), StrV(F_id)}})

AuthHeaders == {GoodAuth} \cup BadAuths

NoList == [isSet |-> FALSE, cols |-> {}]
AllowList(cols) == [isSet |-> TRUE, cols |-> cols]


----------------------------------------------------------------------------
(* Requests in flight.  The async def endpoints are coroutines of the one  *)
(* event loop: a coroutine runs from one await to the next without another *)
(* coroutine in between.  The def endpoints run on worker threads, which   *)
(* interleave with the event loop between any two statements.              *)

NoResp == [status |-> 0]

IdleIngest == [pc |-> "idle", payload |-> NotAList, old |-> <<>>, resp |-> NoResp]

IdlePatch ==
    [pc |-> "idle", rid |-> <<>>, body |-> [field |-> None, value |-> None],
     row |-> 0, live |-> FALSE, resp |-> NoResp]

IdleRead ==
    [pc |-> "idle", op |-> "none", rid |-> <<>>, stage |-> "exact", i |-> 0,
     acc |-> <<>>, views |-> {}, result |-> NoResp]

\* a coroutine between two of its statements with no await in between
MidRun(task) == task.pc \in {"cleared", "resolved"}

\* coroutine steps scheduled as if the endpoints ran on threads
CanRunOnLoop_preemptive(other) == TRUE

\* a coroutine step may run only while no other coroutine is between two
\* of its statements
CanRunOnLoop(other) == ~MidRun(other)

\* fetch_jira_issues not called
IdleSearch ==
    [pc |-> "off", jql |-> "none", days |-> 0, query |-> [jql |-> "none", days |-> 0],
     sent |-> <<>>, result |-> <<>>, reported |-> <<>>]

----------------------------------------------------------------------------
(* The service, one request at a time *)

Init ==
    /\ DATA_STORAGE = <<>>
    /\ EDITABLE_COLUMNS = NoList
    /\ req = [op |-> "start"]
    /\ resp = [status |-> 0]
    /\ df = NoTable
    /\ phase = "off"
    /\ cand = <<>>
    /\ jira = IdleSearch
    /\ ingestTask = IdleIngest
    /\ patchTask = IdlePatch
    /\ readTask = IdleRead

Ingest ==
    \E r \in IngestRequests :
        LET out == receive_releases(DATA_STORAGE, r[1], r[2])
        IN  /\ req' = [op |-> "ingest", auth |-> r[1], payload |-> r[2]]
            /\ DATA_STORAGE' = out.store
            /\ resp' = out.resp
            /\ UNCHANGED <<EDITABLE_COLUMNS, assignerVars, taskVars>>

Patch ==
    \E r \in PatchRequests :
        LET out == patch_cell(DATA_STORAGE, EDITABLE_COLUMNS, r[1], r[2], r[3])
        IN  /\ req' = [op |-> "patch", auth |-> r[1], rid |-> r[2], body |-> r[3]]
            /\ DATA_STORAGE' = out.store
            /\ resp' = out.resp
            /\ UNCHANGED <<EDITABLE_COLUMNS, assignerVars, taskVars>>

Rebuild ==
    \E a \in AuthHeaders :
        LET out == rebuild_ids(DATA_STORAGE, a)
        IN  /\ req' = [op |-> "rebuild", auth |-> a]
            /\ DATA_STORAGE' = out.store
            /\ resp' = out.resp
            /\ UNCHANGED <<EDITABLE_COLUMNS, assignerVars, taskVars>>

Health ==
    /\ req' = [op |-> "health"]
    /\ resp' = health(DATA_STORAGE)
    /\ UNCHANGED <<DATA_STORAGE, EDITABLE_COLUMNS, assignerVars, taskVars>>

ReadAll ==
    /\ req' = [op |-> "read_all"]
    /\ resp' = get_releases_json(DATA_STORAGE)
    /\ UNCHANGED <<DATA_STORAGE, EDITABLE_COLUMNS, assignerVars, taskVars>>

ListIds ==
    /\ req' = [op |-> "list_ids"]
    /\ resp' = [status |-> 200, ids |-> list_ids(DATA_STORAGE)]
    /\ UNCHANGED <<DATA_STORAGE, EDITABLE_COLUMNS, assignerVars, taskVars>>

ReadOne ==
    \E rid \in RequestIds :
        /\ req' = [op |-> "read_one", rid |-> rid]
        /\ resp' = get_row(DATA_STORAGE, rid)
        /\ UNCHANGED <<DATA_STORAGE, EDITABLE_COLUMNS, assignerVars, taskVars>>

Next == Ingest \/ Patch \/ Rebuild \/ Health \/ ReadAll \/ ListIds \/ ReadOne

Spec == Init /\ [][Next]_vars

----------------------------------------------------------------------------
(* Claims about the Row Store, checked under Spec *)

RowIndexes == 1..Len(DATA_STORAGE)

\* C1: in every reachable state of the store no two rows of the current
\* batch have the same __id.
C1_UniqueIds ==
    \A i, j \in RowIndexes :
        i # j => Get(DATA_STORAGE[i], F_id) # Get(DATA_STORAGE[j], F_id)

\* C2: an ingest call rejected with a validation error (400) leaves the
\* store exactly as it was before the call.
C2_RejectedIngestKeepsStore ==
    [][(req'.op = "ingest" /\ resp'.status = 400) => DATA_STORAGE' = DATA_STORAGE]_vars

\* C3: whatever a patch call is given and whether it succeeds or fails, the
\* __id of every row is the same after the call as before it.
C3_PatchKeepsIds ==
    [][req'.op = "patch" =>
          /\ Len(DATA_STORAGE') = Len(DATA_STORAGE)
          /\ \A i \in RowIndexes :
                Get(DATA_STORAGE'[i], F_id) = Get(DATA_STORAGE[i], F_id)]_vars

\* C4: in every reachable state every row of the current batch carries a
\* __id field that is a non-empty string.
C4_IdsNonEmptyStrings ==
    \A i \in RowIndexes :
        /\ F_id \in DOMAIN DATA_STORAGE[i]
        /\ DATA_STORAGE[i][F_id].k = "str"
        /\ DATA_STORAGE[i][F_id].s # <<>>

\* the requests resolution is examined on: exact, padded, suffixed once and
\* twice, suffix after a blank, bare suffix, dangling hyphen, fallback
\* identifiers, a number, unknown
ResolveRequests ==
    RequestIds \cup
    { <<" ", "a">>, T_a1, T_a1 \o <<"-", "2">>, <<"a", "-", "2", "0">>,
      <<"a", " ", "-", "1">>, <<"-", "1">>, <<"a", "-">>, <<"a", "-", "1", "x">>,
      <<"r", "o", "w", "-", "0">>, <<"r", "o", "w", "-", "1", "-", "5">>,
      <<"r", "o", "w">>, <<"7">>, <<>> }

\* the positions of the rows whose normalized identifier is rid
RowsWithId(rid) == {i \in RowIndexes : _row_id(DATA_STORAGE[i]) = rid}

\* the bases b for which the text r has the form b-<digits>
BasesOf(r) ==
    {SubSeq(r, 1, k - 1) : k \in {h \in 1..(Len(r) - 1) :
        r[h] = "-" /\ \A j \in (h + 1)..Len(r) : r[j] \in Digits}}

Lowest(S) == IF S = {} THEN 0 ELSE CHOOSE i \in S : \A j \in S : i <= j

\* the resolution the specification describes: exact first, then one
\* numeric suffix stripped, then not found
Resolved(rid) ==
    LET r == Strip(rid)
        exact == RowsWithId(r)
        stripped == UNION {RowsWithId(Strip(b)) : b \in {c \in BasesOf(r) : Strip(c) # <<>>}}
    IN  IF exact # {} THEN Lowest(exact) ELSE Lowest(stripped)

\* C9: resolve-by-identifier returns the first row whose normalized
\* identifier equals the trimmed request; only when there is none and the
\* request is <base>-<digits>, the first row whose identifier is <base>;
\* otherwise not found.  A request for X never returns a row stored as
\* X-<digits>, and with X and X-<digits> both stored the suffixed request
\* returns the suffixed row.  Read-one answers with that row.
C9_Resolve ==
    /\ \A rid \in ResolveRequests :
          LET i == find_row_by_id(DATA_STORAGE, rid)
          IN  /\ i = Resolved(rid)
              /\ i # 0 => Strip(rid) \notin BasesOf(_row_id(DATA_STORAGE[i]))
              /\ RowsWithId(Strip(rid)) # {} => i = Lowest(RowsWithId(Strip(rid)))
    /\ req.op = "read_one" =>
          resp = IF Resolved(req.rid) = 0 THEN NotFound(DATA_STORAGE)
                 ELSE [status |-> 200, row |-> DATA_STORAGE[Resolved(req.rid)]]

\* read-one has answered a suffixed request with the row stored under the
\* base, while the store also holds a row under another suffixed identifier
C9_Witness ==
    /\ req.op = "read_one"
    /\ resp.status = 200
    /\ _row_id(resp.row) # Strip(req.rid)
    /\ \E i \in RowIndexes : BasesOf(_row_id(DATA_STORAGE[i])) # {}

\* C10: ingesting the same valid batch twice in a row leaves the store as
\* the first ingest left it, with the same reported row count.
C10_IngestIdempotent ==
    [][(/\ req.op = "ingest" /\ resp.status = 200
        /\ req'.op = "ingest" /\ resp'.status = 200
        /\ req'.payload = req.payload)
       => (DATA_STORAGE' = DATA_STORAGE /\ resp' = resp)]_vars

\* a batch of MaxRows rows has been ingested, one of them with a fallback
\* identifier and one with an identifier of its own
C10_Witness ==
    /\ req.op = "ingest"
    /\ resp.status = 200
    /\ Len(DATA_STORAGE) = MaxRows
    /\ \E i \in RowIndexes : DATA_STORAGE[i][F_id] = StrV(FallbackId(i - 1))
    /\ \E i \in RowIndexes : DATA_STORAGE[i][F_id] = StrV(T_a)

\* the fields on which two rows may differ, every other field being equal
SameBut(old, new, fields) ==
    /\ (DOMAIN old) \ fields = (DOMAIN new) \ fields
    /\ \A f \in (DOMAIN old) \ fields : new[f] = old[f]

\* C11: after a successful ingest the store holds exactly the annotated
\* input rows in input order, nothing of the previous batch, and the
\* reported count is the input length; no patch, rebuild, read or rejected
\* call changes the number or the order of the rows.
C11_OnlyIngestReplaces ==
    [][IF req'.op = "ingest" /\ resp'.status = 200
       THEN /\ Len(DATA_STORAGE') = Len(req'.payload.items)
            /\ resp'.count = Len(req'.payload.items)
            /\ \A i \in 1..Len(DATA_STORAGE') :
                  /\ F_id \in DOMAIN DATA_STORAGE'[i]
                  /\ SameBut(req'.payload.items[i].d, DATA_STORAGE'[i], {F_id})
       ELSE /\ Len(DATA_STORAGE') = Len(DATA_STORAGE)
            /\ \A i \in RowIndexes :
                  SameBut(DATA_STORAGE[i], DATA_STORAGE'[i],
                          {F_id} \cup (IF req'.op = "patch"
                                       THEN {PatchField(req'.body)} ELSE {}))]_vars

\* a row whose __id field is a non-empty text without blanks around it
HasOwnId(row) ==
    /\ Get(row, F_id).k = "str"
    /\ Get(row, F_id).s # <<>>
    /\ Strip(Get(row, F_id).s) = Get(row, F_id).s

\* C12: a patch of an identifier that neither tier resolves changes nothing
\* in the store; once past the authorization and field checks it answers
\* not found with the identifiers of the first min(5, row count) rows, in
\* stored order.
C12_PatchUnknownId ==
    [][(req'.op = "patch" /\ Resolved(req'.rid) = 0) =>
          /\ DATA_STORAGE' = DATA_STORAGE
          /\ (req'.auth = GoodAuth /\ PatchField(req'.body) # <<>>) =>
                /\ resp'.status = 404
                /\ Len(resp'.known) = (IF Len(DATA_STORAGE) < 5 THEN Len(DATA_STORAGE) ELSE 5)
                /\ \A i \in 1..Len(resp'.known) :
                      /\ resp'.known[i] = _row_id(DATA_STORAGE[i])
                      /\ HasOwnId(DATA_STORAGE[i]) =>
                            resp'.known[i] = DATA_STORAGE[i][F_id].s]_vars

\* a patch was answered not found on a store of more than five rows, with
\* a sample of five
C12_Witness ==
    /\ req.op = "patch"
    /\ resp.status = 404
    /\ Len(DATA_STORAGE) > 5
    /\ Len(resp.known) = 5

\* the field name of a patch body is missing, or blank after trimming
BlankField(body) == body.field.k = "none" \/ (body.field.k = "str" /\ Strip(body.field.s) = <<>>)

\* C14: an ingest, patch or rebuild call whose authorization header is not
\* exactly "Bearer my_secret_key" is answered 401 whatever its body, and
\* leaves the store unchanged; with that header it is never answered 401;
\* the reads are served without authorization.
C14_AuthFirst ==
    [][/\ req'.op \in {"ingest", "patch", "rebuild"} =>
            IF req'.auth = "Bearer my_secret_key"
            THEN resp'.status # 401
            ELSE resp'.status = 401 /\ DATA_STORAGE' = DATA_STORAGE
       /\ req'.op \in {"health", "read_all", "list_ids"} => resp'.status = 200
       /\ req'.op = "read_one" => resp'.status \in {200, 404}]_vars

\* a patch with the bare key and a blank field name was answered 401 on a
\* store that holds rows
C14_Witness ==
    /\ req.op = "patch"
    /\ req.auth = API_KEY
    /\ BlankField(req.body)
    /\ resp.status = 401
    /\ DATA_STORAGE # <<>>

\* C17: rebuild-identifiers keeps the __id of every row that has a
\* non-empty one, gives row-<index> to every row without one, changes no
\* other field and reports the row count.
C17_RebuildFillsMissing ==
    [][(req'.op = "rebuild" /\ resp'.status = 200) =>
          /\ Len(DATA_STORAGE') = Len(DATA_STORAGE)
          /\ resp'.rows = Len(DATA_STORAGE)
          /\ \A i \in RowIndexes :
                /\ SameBut(DATA_STORAGE[i], DATA_STORAGE'[i], {F_id})
                /\ Get(DATA_STORAGE'[i], F_id) =
                      IF Get(DATA_STORAGE[i], F_id).k = "str" /\ Get(DATA_STORAGE[i], F_id).s # <<>>
                      THEN Get(DATA_STORAGE[i], F_id)
                      ELSE StrV(FallbackId(i - 1))]_vars

\* the fields probed for an identifier, in priority order
Probes == <<F_id, F_ExternalID, F_ID, F_idLower>>

\* a value that is non-empty after trimming
Usable(v) == v.k # "none" /\ Strip(PyStr(v)) # <<>>

\* C18: after a successful ingest the row at zero-based position i has as
\* __id the trimmed value of the first of __id, ExternalID, ID, id that is
\* non-empty after trimming, and row-<i> exactly when none of them is;
\* every other field equals the input row's field.
C18_IngestIdentifier ==
    [][(req'.op = "ingest" /\ resp'.status = 200) =>
          /\ Len(DATA_STORAGE') = Len(req'.payload.items)
          /\ \A i \in 1..Len(DATA_STORAGE') :
                LET r == req'.payload.items[i].d
                    usable == {n \in 1..Len(Probes) : Usable(Get(r, Probes[n]))}
                IN  /\ SameBut(r, DATA_STORAGE'[i], {F_id})
                    /\ Get(DATA_STORAGE'[i], F_id) =
                          IF usable = {} THEN StrV(FallbackId(i - 1))
                          ELSE StrV(Strip(PyStr(Get(r, Probes[Lowest(usable)]))))]_vars

\* C20: a successful patch sets the named field, created if absent, on
\* the row the resolver returns (the first match in stored order), leaves
\* every other field of that row and every other row unchanged, and
\* reports the identifier of the row it modified, which is not the
\* requested one when the suffix was stripped.
C20_PatchOneField ==
    [][(req'.op = "patch" /\ resp'.status = 200) =>
          LET i == Resolved(req'.rid)
              field == Strip(req'.body.field.s)
          IN  /\ i # 0
              /\ Len(DATA_STORAGE') = Len(DATA_STORAGE)
              /\ \A j \in RowIndexes \ {i} : DATA_STORAGE'[j] = DATA_STORAGE[j]
              /\ SameBut(DATA_STORAGE[i], DATA_STORAGE'[i], {field})
              /\ field \in DOMAIN DATA_STORAGE'[i]
              /\ DATA_STORAGE'[i][field] = req'.body.value
              /\ resp'.field = field
              /\ resp'.value = req'.body.value
              /\ resp'.id = _row_id(DATA_STORAGE'[i])
              /\ (field # F_id /\ HasOwnId(DATA_STORAGE[i])) =>
                    resp'.id = DATA_STORAGE[i][F_id].s]_vars

\* a patch of a suffixed identifier has set Status on the row stored under
\* the base, the first of two rows, and reported the base
C20_Witness ==
    /\ req.op = "patch"
    /\ resp.status = 200
    /\ resp.id # Strip(req.rid)
    /\ resp.field = F_Status
    /\ Len(DATA_STORAGE) = 2
    /\ Get(DATA_STORAGE[1], F_Status) = StrV(T_a)
    /\ F_Status \notin DOMAIN DATA_STORAGE[2]

----------------------------------------------------------------------------
(* The service started with EDITABLE_COLUMNS set: None as in the source,   *)
(* or a set of field names as the comment on line 28 shows                 *)

AllowLists == {NoList, AllowList({}), AllowList({F_Status})}

InitAllow ==
    /\ DATA_STORAGE = <<>>
    /\ EDITABLE_COLUMNS \in AllowLists
    /\ req = [op |-> "start"]
    /\ resp = [status |-> 0]
    /\ df = NoTable
    /\ phase = "off"
    /\ cand = <<>>
    /\ jira = IdleSearch
    /\ ingestTask = IdleIngest
    /\ patchTask = IdlePatch
    /\ readTask = IdleRead

SpecAllow == InitAllow /\ [][Next]_vars

\* C13: an authorized patch whose field name is missing or blank is
\* rejected with 400, one whose field is not in a configured allow-list
\* with 403; both whether or not the identifier resolves, and the store is
\* unchanged.
C13_FieldChecksFirst ==
    [][(req'.op = "patch" /\ req'.auth = GoodAuth) =>
          /\ BlankField(req'.body) =>
                (resp'.status = 400 /\ DATA_STORAGE' = DATA_STORAGE)
          /\ (/\ ~BlankField(req'.body)
              /\ EDITABLE_COLUMNS.isSet
              /\ Strip(req'.body.field.s) \notin EDITABLE_COLUMNS.cols) =>
                (resp'.status = 403 /\ DATA_STORAGE' = DATA_STORAGE)]_vars

----------------------------------------------------------------------------
(* The sync job: send_excel_to_api run on one sheet, then a lookup *)

C_Key == <<"K", "e", "y">>

\* a sheet of up to MaxSheetRows rows over the given columns and row choices
Sheets(cols, rows) == {Table(cols, q) : q \in SeqsUpTo(rows, MaxSheetRows)}

Row1(c1, v1) == [c \in {c1} |-> v1]
Row2(c1, v1, c2, v2) == [c \in {c1, c2} |-> IF c = c1 THEN v1 ELSE v2]
Row3(c1, v1, c2, v2, c3, v3) ==
    [c \in {c1, c2, c3} |-> IF c = c1 THEN v1 ELSE IF c = c2 THEN v2 ELSE v3]

T_a0 == <<"a", "-", "0">>

\* a Scope header in capitals with a blank after it
C_SCOPE == <<"S", "C", "O", "P", "E", " ">>

\* sheets with an identifier column (adopted), with a literal __id column
\* (kept), with business columns only (composite identifiers), with
\* Category and Scope beside a key column, and with Scope before Status
SheetInputs ==
    Sheets(<<F_ID>>, {Row1(F_ID, StrV(T_a)), Row1(F_ID, StrV(T_a0)), Row1(F_ID, IntV(<<"7">>))})
    \cup Sheets(<<F_id>>, {Row1(F_id, StrV(T_a))})
    \cup Sheets(<<C_Application, C_Version, C_Scope>>,
            { Row3(C_Application, StrV(<<"A">>), C_Version, StrV(<<"1">>), C_Scope, None),
              Row3(C_Application, StrV(<<"A", " ">>), C_Version, None, C_Scope, StrV(<<"S">>)) })
    \cup Sheets(<<C_Category, C_Scope, C_Key>>,
            { Row3(C_Category, StrV(<<>>), C_Scope, StrV(<<"A">>), C_Key, StrV(T_a)),
              Row3(C_Category, StrV(<<"X">>), C_Scope, StrV(<<"B">>), C_Key, StrV(T_a)),
              Row3(C_Category, None, C_Scope, StrV(<<"S">>), C_Key, StrV(T_a)) })
    \cup Sheets(<<C_SCOPE, F_Status>>,
            { Row2(C_SCOPE, StrV(<<"A">>), F_Status, StrV(<<"x">>)),
              Row2(C_SCOPE, None, F_Status, StrV(<<"y">>)) })

InitSync ==
    /\ DATA_STORAGE = <<>>
    /\ EDITABLE_COLUMNS = NoList
    /\ req = [op |-> "start"]
    /\ resp = [status |-> 0]
    /\ df \in SheetInputs
    /\ phase = "read"
    /\ cand = <<>>
    /\ jira = IdleSearch
    /\ ingestTask = IdleIngest
    /\ patchTask = IdlePatch
    /\ readTask = IdleRead

\* lines 41-56
Reconcile ==
    /\ phase = "read"
    /\ df' = Reconciled(df)
    /\ phase' = "reconciled"
    /\ UNCHANGED <<serverVars, cand, jira, taskVars>>

\* lines 58-85
AssignIds ==
    /\ phase = "reconciled"
    /\ df' = Assigned(df)
    /\ cand' = Column(df', F_id)
    /\ phase' = "assigned"
    /\ UNCHANGED <<serverVars, jira, taskVars>>

\* lines 87-94
EnforceUnique ==
    /\ phase = "assigned"
    /\ df' = Unique(df)
    /\ phase' = "unique"
    /\ UNCHANGED <<serverVars, cand, jira, taskVars>>

\* lines 106-118: the POST the server handles
Send ==
    /\ phase = "unique"
    /\ LET p == List(Records(df))
           out == receive_releases(DATA_STORAGE, GoodAuth, p)
       IN  /\ req' = [op |-> "ingest", auth |-> GoodAuth, payload |-> p]
           /\ DATA_STORAGE' = out.store
           /\ resp' = out.resp
    /\ phase' = "sent"
    /\ UNCHANGED <<EDITABLE_COLUMNS, df, cand, jira, taskVars>>

\* a client reads one row by an identifier the job assigned, before or
\* after the uniqueness step
Lookup ==
    /\ phase = "sent"
    /\ \E i \in 1..Len(cand) :
          \E v \in {cand[i], Column(df, F_id)[i]} :
              /\ req' = [op |-> "read_one", rid |-> v.s]
              /\ resp' = get_row(DATA_STORAGE, v.s)
    /\ UNCHANGED <<DATA_STORAGE, EDITABLE_COLUMNS, assignerVars, taskVars>>

NextSync == Reconcile \/ AssignIds \/ EnforceUnique \/ Send \/ Lookup

SpecSync == InitSync /\ [][NextSync]_vars

----------------------------------------------------------------------------
(* Claims about the Identity Assigner, checked under SpecSync *)

\* the positions of the columns whose name, trimmed and in lower case, is key
ColsNamed(cols, key) == {i \in 1..Len(cols) : ColKey(cols[i]) = key}

\* an empty or missing cell
EmptyCell(v) == v.k = "none" \/ v = StrV(<<>>)

\* C16: reconciliation.  With Category and Scope both present, each row
\* whose Category is empty or missing gets its Scope value and populated
\* Category values stay; with Scope only, a Category column equal to Scope
\* is inserted right after Scope; otherwise nothing changes; no other
\* column is reordered, renamed or modified.
C16_Reconciliation ==
    [][(phase = "read" /\ phase' = "reconciled") =>
          LET sc == ColsNamed(df.cols, K_scope)
              cat == ColsNamed(df.cols, K_category)
              rows == 1..Len(df.data)
          IN  /\ Len(df'.data) = Len(df.data)
              /\ IF cat # {} /\ sc # {}
                 THEN LET c == df.cols[Lowest(cat)]
                          sco == df.cols[Lowest(sc)]
                      IN  /\ df'.cols = df.cols
                          /\ \A i \in rows :
                                /\ SameBut(df.data[i], df'.data[i], {c})
                                /\ df'.data[i][c] =
                                      IF EmptyCell(df.data[i][c]) THEN df.data[i][sco]
                                      ELSE df.data[i][c]
                 ELSE IF sc # {}
                 THEN LET p == Lowest(sc)
                      IN  /\ df'.cols = SubSeq(df.cols, 1, p) \o <<C_Category>>
                                          \o SubSeq(df.cols, p + 1, Len(df.cols))
                          /\ \A i \in rows :
                                /\ SameBut(df.data[i], df'.data[i], {C_Category})
                                /\ df'.data[i][C_Category] = df.data[i][df.cols[p]]
                 ELSE df' = df]_vars

\* Category was inserted between Scope and Status, on a sheet with rows
C16_Witness ==
    /\ phase = "reconciled"
    /\ df.cols = <<C_SCOPE, C_Category, F_Status>>
    /\ Len(df.data) = MaxSheetRows
    /\ \E i \in 1..Len(df.data) : df.data[i][C_Category] = StrV(<<"A">>)

\* C19: in the uniqueness step every row whose candidate identifier is
\* shared by more than one row, the first included, gets -<n> appended, n
\* being its zero-based occurrence index in its group in row order; a row
\* whose candidate is unique keeps it; row order is unchanged.
C19_OccurrenceSuffix ==
    [][(phase = "assigned" /\ phase' = "unique") =>
          /\ df'.cols = df.cols
          /\ Len(df'.data) = Len(df.data)
          /\ \A i \in 1..Len(df.data) :
                LET group == {j \in 1..Len(cand) : cand[j] = cand[i]}
                    n == Cardinality({j \in group : j < i})
                IN  /\ SameBut(df.data[i], df'.data[i], {F_id})
                    /\ df'.data[i][F_id] =
                          IF Cardinality(group) > 1
                          THEN StrV(cand[i].s \o <<"-">> \o DecStr(n))
                          ELSE cand[i]]_vars

\* three rows were given the same composite identifier and one another,
\* and the first of the three now ends in -0
C19_Witness ==
    /\ phase = "unique"
    /\ Len(cand) = MaxSheetRows
    /\ \E i \in 1..Len(cand) :
          /\ Cardinality({j \in 1..Len(cand) : cand[j] = cand[i]}) = MaxSheetRows - 1
          /\ TrailingDigits(cand[i].s) = 0
          /\ df.data[i][F_id] = StrV(cand[i].s \o <<"-", "0">>)
    /\ \E i \in 1..Len(cand) : df.data[i][F_id] = cand[i]

\* C7: after the uniqueness-enforcement step no two rows of the output
\* batch share an __id, whether the identifiers were adopted from a column
\* or composed.
C7_AssignerIdsUnique ==
    phase \in {"unique", "sent"} =>
        \A i, j \in 1..Len(df.data) :
            i # j => Cell(df.data[i], F_id) # Cell(df.data[j], F_id)

\* the first row that was given the same candidate identifier as row i
FirstOfGroup(i) == CHOOSE j \in 1..Len(cand) : cand[j] = cand[i] /\ \A k \in 1..(j - 1) : cand[k] # cand[i]

\* C8: for every group of rows given the same candidate identifier, once
\* the batch is ingested, resolving the group's un-suffixed identifier
\* returns the first-occurring row of the group.
C8_BaseResolvesToFirst ==
    (phase = "sent" /\ req.op = "read_one") =>
        \A i \in 1..Len(cand) :
            (Duplicated(cand, i) /\ cand[i].s = req.rid) =>
                resp = [status |-> 200, row |-> DATA_STORAGE[FirstOfGroup(i)]]

----------------------------------------------------------------------------
(* The service with an ingest, a patch and a read in flight at once *)

RowA == [f \in {F_id} |-> StrV(T_a)]
RowA1 == [f \in {F_id} |-> StrV(T_a1)]

\* batches of one and of two rows, and one with an element that is no object
ConcurrentPayloads ==
    {List(<<Dict(RowA)>>), List(<<Dict(RowA), Dict(RowA1)>>), List(<<Dict(RowA), NotADict>>)}

\* resolved exactly when a row a-1 is stored, by its base a otherwise
ConcurrentPatches == {<<T_a1, Body(StrV(F_Status), StrV(T_a))>>}

ConcurrentReads ==
    {<<"health", <<>>>>, <<"read_all", <<>>>>, <<"list_ids", <<>>>>, <<"read_one", T_a1>>}

\* the batch readers are entitled to see: the store, or the previous batch
\* while a replace is between its clear and its extend
Committed == IF ingestTask.pc = "cleared" THEN ingestTask.old ELSE DATA_STORAGE

\* what a read of a whole batch returns
ViewOf(op, rid, batch) ==
    CASE op = "health" -> health(batch)
      [] op = "read_all" -> get_releases_json(batch)
      [] op = "list_ids" -> [status |-> 200, ids |-> list_ids(batch)]
      [] OTHER -> get_row(batch, rid)

\* the read in flight, told of a batch that became current while it runs:
\* views holds what the read would return of each such batch
Noting(task, batch) ==
    IF task.pc = "run"
    THEN [task EXCEPT !.views = @ \cup {ViewOf(task.op, task.rid, batch)}]
    ELSE task

InitConcurrent ==
    /\ DATA_STORAGE = <<>>
    /\ EDITABLE_COLUMNS = NoList
    /\ req = [op |-> "start"]
    /\ resp = NoResp
    /\ df = NoTable
    /\ phase = "off"
    /\ cand = <<>>
    /\ jira = IdleSearch
    /\ ingestTask = IdleIngest
    /\ patchTask = IdlePatch
    /\ readTask = IdleRead

pinned == <<EDITABLE_COLUMNS, req, resp, assignerVars>>

\* receive_releases, lines 89-93: authorized, suspended in await request.json()
IngestStart ==
    /\ ingestTask.pc \in {"idle", "done"}
    /\ CanRunOnLoop(patchTask)
    /\ \E p \in ConcurrentPayloads :
          ingestTask' = [IdleIngest EXCEPT !.pc = "await_json", !.payload = p]
    /\ UNCHANGED <<DATA_STORAGE, patchTask, readTask, pinned>>

\* lines 94-97: resumed with a list, the store is cleared; a row a patch
\* has resolved is no longer in the store
IngestClear ==
    /\ ingestTask.pc = "await_json"
    /\ CanRunOnLoop(patchTask)
    /\ ingestTask' = [ingestTask EXCEPT !.pc = "cleared", !.old = DATA_STORAGE]
    /\ DATA_STORAGE' = Cleared(DATA_STORAGE)
    /\ patchTask' = [patchTask EXCEPT !.live = FALSE]
    /\ UNCHANGED <<readTask, pinned>>

\* lines 98-99: _attach_ids raises, or the store is extended
IngestExtend ==
    /\ ingestTask.pc = "cleared"
    /\ CanRunOnLoop(patchTask)
    /\ IF AllDicts(ingestTask.payload.items)
       THEN /\ DATA_STORAGE' = Extended(DATA_STORAGE, _attach_ids(ingestTask.payload.items))
            /\ ingestTask' = [IdleIngest EXCEPT !.pc = "done",
                    !.resp = [status |-> 200, count |-> Len(DATA_STORAGE')]]
       ELSE /\ DATA_STORAGE' = DATA_STORAGE
            /\ ingestTask' = [IdleIngest EXCEPT !.pc = "done",
                    !.resp = [status |-> 400, detail |-> "Each item must be an object"]]
    /\ readTask' = Noting(readTask, DATA_STORAGE')
    /\ UNCHANGED <<patchTask, pinned>>

\* patch_cell, lines 131-133: authorized, suspended in await request.json()
PatchStart ==
    /\ patchTask.pc \in {"idle", "done"}
    /\ CanRunOnLoop(ingestTask)
    /\ \E r \in ConcurrentPatches :
          patchTask' = [IdlePatch EXCEPT !.pc = "await_json", !.rid = r[1], !.body = r[2]]
    /\ UNCHANGED <<DATA_STORAGE, ingestTask, readTask, pinned>>

\* lines 134-145: the field is checked and the row resolved
PatchResolve ==
    /\ patchTask.pc = "await_json"
    /\ CanRunOnLoop(ingestTask)
    /\ LET field == PatchField(patchTask.body)
           i == find_row_by_id(DATA_STORAGE, patchTask.rid)
       IN  patchTask' =
             IF field = <<>>
             THEN [IdlePatch EXCEPT !.pc = "done",
                      !.resp = [status |-> 400, detail |-> "Missing 'field'"]]
             ELSE IF NotEditable(EDITABLE_COLUMNS, field)
             THEN [IdlePatch EXCEPT !.pc = "done",
                      !.resp = [status |-> 403, detail |-> "not editable"]]
             ELSE IF i = 0
             THEN [IdlePatch EXCEPT !.pc = "done", !.resp = NotFound(DATA_STORAGE)]
             ELSE [patchTask EXCEPT !.pc = "resolved", !.row = i, !.live = TRUE]
    /\ UNCHANGED <<DATA_STORAGE, ingestTask, readTask, pinned>>

\* lines 148-149: the field is set on the resolved dict, which is a row of
\* the store only if no clear has run since it was resolved
PatchSet ==
    /\ patchTask.pc = "resolved"
    /\ CanRunOnLoop(ingestTask)
    /\ LET field == PatchField(patchTask.body)
           i == patchTask.row
       IN  /\ DATA_STORAGE' =
                 IF patchTask.live
                 THEN [DATA_STORAGE EXCEPT ![i] = SetField(@, field, patchTask.body.value)]
                 ELSE DATA_STORAGE
           /\ patchTask' = [IdlePatch EXCEPT !.pc = "done",
                   !.resp = [status |-> 200, field |-> field,
                             value |-> patchTask.body.value, inStore |-> patchTask.live]]
    /\ readTask' = Noting(readTask, DATA_STORAGE')
    /\ UNCHANGED <<ingestTask, pinned>>

ReadStart ==
    /\ readTask.pc \in {"idle", "done"}
    /\ \E r \in ConcurrentReads :
          readTask' = [IdleRead EXCEPT !.pc = "run", !.op = r[1], !.rid = r[2],
                                       !.views = {ViewOf(r[1], r[2], Committed)}]
    /\ UNCHANGED <<DATA_STORAGE, ingestTask, patchTask, pinned>>

Answer(result) ==
    [IdleRead EXCEPT !.pc = "done", !.op = readTask.op, !.rid = readTask.rid,
                     !.views = readTask.views, !.result = result]

\* health, a def endpoint: one read of len(DATA_STORAGE)
ReadHealth ==
    /\ readTask.pc = "run" /\ readTask.op = "health"
    /\ readTask' = Answer(health(DATA_STORAGE))
    /\ UNCHANGED <<DATA_STORAGE, ingestTask, patchTask, pinned>>

\* get_releases_json, an async def endpoint without await
ReadAllJson ==
    /\ readTask.pc = "run" /\ readTask.op = "read_all"
    /\ CanRunOnLoop(ingestTask) /\ CanRunOnLoop(patchTask)
    /\ readTask' = Answer(get_releases_json(DATA_STORAGE))
    /\ UNCHANGED <<DATA_STORAGE, ingestTask, patchTask, pinned>>

\* list_ids, a def endpoint: one turn of the comprehension over DATA_STORAGE
ReadListIds ==
    /\ readTask.pc = "run" /\ readTask.op = "list_ids"
    /\ readTask' =
          IF readTask.i < Len(DATA_STORAGE)
          THEN [readTask EXCEPT !.i = @ + 1,
                   !.acc = Append(@, _row_id(DATA_STORAGE[readTask.i + 1]))]
          ELSE Answer([status |-> 200, ids |-> readTask.acc])
    /\ UNCHANGED <<DATA_STORAGE, ingestTask, patchTask, pinned>>

\* get_row, a def endpoint: one turn of a loop of find_row_by_id
ReadGetRow ==
    /\ readTask.pc = "run" /\ readTask.op = "read_one"
    /\ LET r == normalize_id(readTask.rid)
           sfx == strip_suffix_num(r)
           target == IF readTask.stage = "exact" THEN r ELSE sfx.base
       IN  readTask' =
             IF readTask.i < Len(DATA_STORAGE)
             THEN IF _row_id(DATA_STORAGE[readTask.i + 1]) = target
                  THEN Answer([status |-> 200, row |-> DATA_STORAGE[readTask.i + 1]])
                  ELSE [readTask EXCEPT !.i = @ + 1]
             ELSE IF readTask.stage = "exact" /\ sfx.found /\ sfx.base # <<>>
             THEN [readTask EXCEPT !.stage = "base", !.i = 0]
             ELSE Answer(NotFound(DATA_STORAGE))
    /\ UNCHANGED <<DATA_STORAGE, ingestTask, patchTask, pinned>>

NextConcurrent ==
    \/ IngestStart \/ IngestClear \/ IngestExtend
    \/ PatchStart \/ PatchResolve \/ PatchSet
    \/ ReadStart \/ ReadHealth \/ ReadAllJson \/ ReadListIds \/ ReadGetRow

SpecConcurrent == InitConcurrent /\ [][NextConcurrent]_vars

----------------------------------------------------------------------------
(* Claims about concurrent requests, checked under SpecConcurrent *)

\* C5: a read that runs while a full replace executes observes the
\* complete previous batch or the complete new batch, never the empty or
\* partially repopulated store between the clear and the repopulation.
C5_ReadsSeeWholeBatch ==
    readTask.pc = "done" =>
        readTask.result \in readTask.views

\* C6: a patch that reports success has set the field on a row that was
\* in the store at the moment the field was set.
C6_PatchHitsStoredRow ==
    (patchTask.pc = "done" /\ patchTask.resp.status = 200) => patchTask.resp.inStore

\* a patch has succeeded on a non-empty store while a replace was in
\* flight, suspended before its clear
C6_Witness ==
    /\ patchTask.pc = "done"
    /\ patchTask.resp.status = 200
    /\ ingestTask.pc = "await_json"
    /\ \E i \in RowIndexes : F_Status \in DOMAIN DATA_STORAGE[i]

----------------------------------------------------------------------------
(* sync_excel_jira.py: fetch_jira_issues.  The ticketing system answers    *)
(* each request with a status, a body that mentions an unbound query or    *)
(* not, and issues; a request may also raise (timeout, connection error),  *)
(* which fetch_jira_issues does not catch.                                 *)

\* the days parameter of the calls examined: below, at and above seven
SearchDays == {3, 7, 30}

\* build_bounded_jql(project_key, days)
build_bounded_jql(days) == [jql |-> "bounded", days |-> days]

\* jql or build_bounded_jql(project_key, days=days)
FirstQuery(jql, days) ==
    IF jql = "none" THEN build_bounded_jql(days) ELSE [jql |-> jql, days |-> 0]

\* min(7, days)
NarrowDays(days) == IF days < 7 THEN days ELSE 7

Issue == <<"K-1">>

Answers ==
    {[status |-> 200, unbound |-> FALSE, issues |-> i] : i \in {<<>>, Issue}}
    \cup {[status |-> st, unbound |-> u, issues |-> <<>>] : st \in {400, 500}, u \in BOOLEAN}

\* a retry on any 400
ShouldRetry_any_400(r) == r.status = 400

\* r.status_code == 400 and ("non liée" in r.text or "unbound" in r.text.lower())
ShouldRetry(r) == r.status = 400 /\ r.unbound

\* a request as sent and answered
Sent(method, query, r) ==
    [method |-> method, query |-> query, status |-> r.status, unbound |-> r.unbound,
     issues |-> r.issues]

\* _extract_and_print_issues(r.json()) returned
Returned(task, issues) == [task EXCEPT !.pc = "done", !.result = issues]

\* an exception leaves fetch_jira_issues
Raised(task) == [task EXCEPT !.pc = "raised"]

InitSearch ==
    /\ DATA_STORAGE = <<>>
    /\ EDITABLE_COLUMNS = NoList
    /\ req = [op |-> "start"]
    /\ resp = [status |-> 0]
    /\ df = NoTable
    /\ phase = "off"
    /\ cand = <<>>
    /\ \E j \in {"none", "custom"}, d \in SearchDays :
          jira = [IdleSearch EXCEPT !.pc = "start", !.jql = j, !.days = d]
    /\ ingestTask = IdleIngest
    /\ patchTask = IdlePatch
    /\ readTask = IdleRead

unsearched == <<serverVars, df, phase, cand, taskVars>>

\* lines 173-174: resolve_project_key raises, or gives a key and the query
\* is built
ResolveProject ==
    /\ jira.pc = "start"
    /\ \/ jira' = Raised(jira)
       \/ jira' = [jira EXCEPT !.pc = "get", !.query = FirstQuery(jira.jql, jira.days)]
    /\ UNCHANGED unsearched

\* lines 187-192: the GET search
SearchGet ==
    /\ jira.pc = "get"
    /\ \/ jira' = Raised(jira)
       \/ \E r \in Answers :
            LET t == [jira EXCEPT !.sent = Append(@, Sent("GET", jira.query, r))]
            IN  jira' =
                  IF r.status = 200 THEN Returned(t, r.issues)
                  ELSE IF ShouldRetry(r)
                  THEN [t EXCEPT !.pc = "retry",
                           !.query = build_bounded_jql(NarrowDays(jira.days))]
                  ELSE [t EXCEPT !.pc = "post"]
    /\ UNCHANGED unsearched

\* lines 193-201: the GET on the narrower window
SearchRetry ==
    /\ jira.pc = "retry"
    /\ \/ jira' = Raised(jira)
       \/ \E r \in Answers :
            LET t == [jira EXCEPT !.sent = Append(@, Sent("GET", jira.query, r))]
            IN  jira' =
                  IF r.status = 200 THEN Returned(t, r.issues)
                  ELSE [t EXCEPT !.pc = "post"]
    /\ UNCHANGED unsearched

\* lines 204-218: the POST search, then the two failures printed
SearchPost ==
    /\ jira.pc = "post"
    /\ \/ jira' = Raised(jira)
       \/ \E r \in Answers :
            LET t == [jira EXCEPT !.sent = Append(@, Sent("POST", jira.query, r))]
            IN  jira' =
                  IF r.status = 200 THEN Returned(t, r.issues)
                  ELSE [Returned(t, <<>>) EXCEPT
                           !.reported = <<[method |-> "GET", status |-> jira.sent[1].status],
                                          [method |-> "POST", status |-> r.status]>>]
    /\ UNCHANGED unsearched

NextSearch == ResolveProject \/ SearchGet \/ SearchRetry \/ SearchPost

\* every request has timeout=30: a call in progress returns or raises
SpecSearch == InitSearch /\ [][NextSearch]_vars /\ WF_vars(NextSearch)

\* the search requests sent so far follow the fixed order
InOrder ==
    LET sent == jira.sent
        n == Len(sent)
    IN  /\ n <= 3
        /\ n >= 1 => (sent[1].method = "GET" /\ sent[1].query = FirstQuery(jira.jql, jira.days))
        /\ \A k \in 2..n :
              \/ /\ sent[k].method = "GET"
                 /\ k = 2
                 /\ sent[1].status = 400 /\ sent[1].unbound
                 /\ sent[k].query.jql = "bounded"
                 /\ sent[k].query.days <= 7 /\ sent[k].query.days <= jira.days
              \/ /\ sent[k].method = "POST"
                 /\ k = n
        /\ \A k \in 1..(n - 1) : sent[k].status # 200

\* what the search returns
Outcome ==
    LET sent == jira.sent
        n == Len(sent)
    IN  jira.pc = "done" =>
          /\ n >= 1
          /\ sent[n].status = 200 => (jira.result = sent[n].issues /\ jira.reported = <<>>)
          /\ sent[n].status # 200 =>
                /\ sent[n].method = "POST"
                /\ \A k \in 1..n : sent[k].status # 200
                /\ jira.result = <<>>
                /\ jira.reported = <<[method |-> "GET", status |-> sent[1].status],
                                     [method |-> "POST", status |-> sent[n].status]>>

\* C15: the search sends the GET first, a second GET on a window of at most
\* 7 days only after a 400 with an unbound-query body, the POST only after
\* every earlier attempt failed; it returns the issues of the first attempt
\* answered 200 and sends nothing more, gives up with an empty result and
\* the GET and POST failures reported only when every attempt failed, and
\* ends after at most three requests.
C15_SearchOrder ==
    /\ [](InOrder /\ Outcome)
    /\ <>(jira.pc \in {"done", "raised"})

\* the search gave up after three failed requests
C15_Witness ==
    /\ jira.pc = "done"
    /\ Len(jira.sent) = 3
    /\ jira.reported # <<>>
    /\ jira.sent[2].query.days = 7

====
